---------------------------- MODULE Spec2Model ----------------------------
(***************************************************************************)
(* A model of src/uiuaizing.rs: the execution pipeline (run_uiua and the   *)
(* From<uiua::Value> classifier), the lazily built EMOJI_MAP with its      *)
(* reader print_emoji, and the documentation lookup get_docs.              *)
(*                                                                         *)
(* Strings are sequences of one-character strings, so that format!, split  *)
(* and prefix tests are computed rather than assumed.                      *)
(***************************************************************************)
EXTENDS Integers, Sequences, FiniteSets, TLC

(***************************************************************************)
(* Bounds of the model.                                                    *)
(***************************************************************************)
\* The interpreter leaves at most MaxStack values on its stack.
MaxStack == 12
\* Calls of run_uiua in one behaviour.
MaxCalls == 2
\* The longest token given to get_docs.
MaxTokenLen == 3
\* Threads that call print_emoji, and the calls they make in all.
NumThreads == 2
MaxLookups == 3
\* The clock stops counting at MaxClock seconds.
MaxClock == 3

(***************************************************************************)
(* Program constants.                                                      *)
(***************************************************************************)
MIN_AUTO_IMAGE_DIM == 30
MAX_STACK_VALS_DISPLAYED == 10
DEFAULT_EXECUTION_LIMIT == 2
SampleRate == 44100
U8 == 256

EmptyCodeMsg ==
    <<"C", "a", "n", "n", "o", "t", " ", "r", "u", "n", " ", "e", "m", "p", "t", "y", " ", "c", "o", "d", "e">>
NoDocsPrefix ==
    <<"N", "o", " ", "d", "o", "c", "s", " ", "f", "o", "u", "n", "d", " ", "f", "o", "r", " ", "'">>
NoDocsSuffix ==
    <<"'", ",", " ", "d", "i", "d", " ", "y", "o", "u", " ", "s", "p", "e", "l", "l", " ", "i", "t", " ", "r", "i", "g", "h", "t", "?">>
DocsLinkPrefix ==
    <<"\n", "\n", "(", "[", "M", "o", "r", "e", " ", "i", "n", "f", "o", "r", "m", "a", "t", "i", "o", "n", "]", "(", "h", "t", "t", "p", "s", ":", "/", "/", "u", "i", "u", "a", ".", "o", "r", "g", "/", "d", "o", "c", "s", "/">>
DocsLinkSuffix ==
    <<")", ")">>
ExperimentalHeader ==
    <<"#", " ", "E", "x", "p", "e", "r", "i", "m", "e", "n", "t", "a", "l", "!", "\n">>
ErrorPrefix ==
    <<"E", "r", "r", "o", "r", " ", "w", "h", "i", "l", "e", " ", "r", "u", "n", "n", "i", "n", "g", ":", " ">>

VARIABLES
    pc,         \* run_uiua: "idle", "running" (inside runtime.run_str), "done"
    code,       \* run_uiua's argument
    prog,       \* what the code does in the interpreter: "halts" or "loops"
    runtime,    \* the Uiua instance of the current call (a local of run_uiua,
                \* dropped when it returns), or NoRuntime
    nextId,     \* identities of Uiua instances built so far
    built,      \* Uiua instances built by the current call
    invoked,    \* run_str invocations of the current call
    runLog,     \* the instances run_str was invoked on, oldest first
    produced,   \* the values the interpreter has on its stack in the current
                \* run, bottom first; they are lost with a run that fails
    detail,     \* the message of the interpreter's error, or <<>>
    result,     \* what run_uiua returned, or NoResult
    returns,    \* how often the current call has returned
    ncalls,     \* calls of run_uiua so far
    cpc,        \* classifier: "input" or "classified"
    cval,       \* classifier: the value given to OutputItem::from
    citem,      \* classifier: the item returned
    ctried,     \* classifier: the attempts made, in order
    asset,      \* EMOJI_IDS, the text of assets/glyphlist.txt
    once,       \* EMOJI_MAP's LazyLock: "incomplete", "running", "complete",
                \* "poisoned"
    table,      \* the HashMap EMOJI_MAP holds once it is complete
    building,   \* the HashMap the initializer is collecting
    lineNo,     \* the line the initializer is at
    initCount,  \* how many times the initializer has been started
    tpc,        \* per thread: "idle", "force", "init", "wait", "read", "panicked"
    tprim,      \* per thread: the primitive given to the print_emoji it is in
    tout,       \* per thread: what its last print_emoji returned, <<>> while
                \* it is in a call
    tseen,      \* per thread: the table its last call read, or NoTable
    twaited,    \* the threads that found the initializer running
    tcalls,     \* calls of print_emoji so far, of all threads
    dpc,        \* get_docs: "input" or "done"
    dtoken,     \* get_docs' argument f
    dout        \* the String get_docs returned

runVars == <<pc, code, prog, runtime, nextId, built, invoked, runLog,
             produced, detail, result, returns, ncalls>>
clsVars == <<cpc, cval, citem, ctried>>
emoVars == <<asset, once, table, building, lineNo, initCount, tpc, tprim, tout,
             tseen, twaited, tcalls>>
docVars == <<dpc, dtoken, dout>>
vars == <<runVars, clsVars, emoVars, docVars>>

\* The smaller of two numbers.
Min(a, b) == IF a < b THEN a ELSE b

(***************************************************************************)
(* uiua::Value, seen through the conversions the classifier applies to it. *)
(* audio: what value_to_audio_channels returns (Err, or Ok with n          *)
(* channels); enc: the step of the Vorbis encoder that fails on it, if     *)
(* any; img: what value_to_image returns (Err, or Ok with a width and a    *)
(* height); png: whether image_to_bytes succeeds on that image.            *)
(***************************************************************************)
ChannelCounts == {0, 1, 2, U8}
AudioConvs ==
    {[ok |-> FALSE, n |-> 0]} \cup {[ok |-> TRUE, n |-> c] : c \in ChannelCounts}
EncFailures == {"none", "build", "encode", "finish"}
Dims == {MIN_AUTO_IMAGE_DIM - 1, MIN_AUTO_IMAGE_DIM}
ImageConvs ==
    {[ok |-> FALSE, w |-> 0, h |-> 0]}
        \cup {[ok |-> TRUE, w |-> w, h |-> h] : w \in Dims, h \in Dims}
Values == [audio : AudioConvs, enc : EncFailures, img : ImageConvs, png : BOOLEAN]

(***************************************************************************)
(* OutputItem.  The encoded bytes of Audio and Image are named by the      *)
(* value they encode.                                                      *)
(***************************************************************************)
Audio(v) == [kind |-> "Audio", of |-> v, n |-> 0]
Image(v) == [kind |-> "Image", of |-> v, n |-> 0]
Misc(v) == [kind |-> "Misc", of |-> v, n |-> 0]
NoValue == [audio |-> [ok |-> FALSE, n |-> 0], enc |-> "none",
            img |-> [ok |-> FALSE, w |-> 0, h |-> 0], png |-> FALSE]
Continuation(n) == [kind |-> "Continuation", of |-> NoValue, n |-> n]
NoItem == [kind |-> "None", of |-> NoValue, n |-> 0]

\* Result<T, E> of a fallible step.
Ok(x) == [ok |-> TRUE, val |-> x]
Err == [ok |-> FALSE, val |-> NoItem]

\* NonZeroU8::new(channels.len() as u8): None when the cast gives 0.
NonZeroU8(n) == (n % U8) # 0

\* fn try_from_ogg: each ? returns the Err of the step that failed.
try_from_ogg(value) ==
    IF ~value.audio.ok THEN Err                 \* value_to_audio_channels(..)?
    ELSE IF SampleRate = 0 THEN Err             \* NonZeroU32::new(44100)
    ELSE IF ~NonZeroU8(value.audio.n) THEN Err  \* NonZeroU8::new(len as u8)
    ELSE IF value.enc = "build" THEN Err        \* VorbisEncoderBuilder .. build()?
    ELSE IF value.enc = "encode" THEN Err       \* encode_audio_block(channels)?
    ELSE IF value.enc = "finish" THEN Err       \* finish()?
    ELSE Ok(Audio(value))

\* Faulty variant of LargeEnough: one large dimension is enough.
LargeEnoughAnyDim(image) ==
    image.w >= MIN_AUTO_IMAGE_DIM \/ image.h >= MIN_AUTO_IMAGE_DIM

\* image.width() >= MIN_AUTO_IMAGE_DIM as u32 && image.height() >= ..
LargeEnough(image) ==
    image.w >= MIN_AUTO_IMAGE_DIM /\ image.h >= MIN_AUTO_IMAGE_DIM

\* Faulty variant of From: the image attempt is made before the audio one.
FromImageFirst(value) ==
    IF value.img.ok /\ LargeEnough(value.img) /\ value.png THEN Image(value)
    ELSE IF try_from_ogg(value).ok THEN try_from_ogg(value).val
    ELSE Misc(value)

\* Faulty variant of From: an encoder failure after a successful audio
\* conversion is not absorbed, and no item comes back.
FromPropagating(value) ==
    IF try_from_ogg(value).ok THEN try_from_ogg(value).val
    ELSE IF value.audio.ok THEN NoItem
    ELSE IF value.img.ok /\ LargeEnough(value.img) /\ value.png THEN Image(value)
    ELSE Misc(value)

\* impl From<uiua::Value> for OutputItem
From(value) ==
    IF try_from_ogg(value).ok THEN try_from_ogg(value).val
    ELSE IF value.img.ok /\ LargeEnough(value.img) /\ value.png THEN Image(value)
    ELSE Misc(value)

\* The attempts From makes on a value, in the order it makes them.
Attempts(value) ==
    IF try_from_ogg(value).ok THEN <<"audio">> ELSE <<"audio", "image">>


(***************************************************************************)
(* The classifier as a specification of its own: a value is drawn and      *)
(* OutputItem::from is applied to it.                                      *)
(***************************************************************************)
ClsIdle ==
    /\ cpc = "input"
    /\ cval = NoValue
    /\ citem = NoItem
    /\ ctried = <<>>

\* No call of get_docs has been made.
DocIdle ==
    /\ dpc = "input"
    /\ dtoken = <<>>
    /\ dout = <<>>

Classify ==
    /\ cpc = "input"
    /\ cpc' = "classified"
    /\ citem' = From(cval)
    /\ ctried' = Attempts(cval)
    /\ UNCHANGED cval
    /\ UNCHANGED <<runVars, emoVars, docVars>>

(***************************************************************************)
(* The Uiua instance run_uiua builds, and the interpreter's side of        *)
(* runtime.run_str: it pushes values, time passes, and it returns Ok, an   *)
(* error of its own, or the error of the execution limit.                  *)
(***************************************************************************)
NoLimit == -1
NoRuntime == [id |-> 0, limit |-> NoLimit, elapsed |-> 0, stack |-> <<>>, source |-> <<>>]
NoResult == [tag |-> "None", items |-> <<>>, msg |-> <<>>]
OkResult(items) == [tag |-> "Ok", items |-> items, msg |-> <<>>]
ErrResult(msg) == [tag |-> "Err", items |-> <<>>, msg |-> msg]

\* The code given to run_uiua, and the interpreter's error messages.
Codes == {<<>>, <<"+", "1">>}
ParseDetail == <<"p", "a", "r", "s", "e">>
RuntimeDetail == <<"s", "t", "a", "c", "k">>
TimeoutDetail == <<"t", "i", "m", "e">>
Details == {ParseDetail, RuntimeDetail}

\* The values the interpreter pushes in the run specifications: one that
\* encodes as audio, one that encodes as an image.
AudioValue == [audio |-> [ok |-> TRUE, n |-> 2], enc |-> "none",
               img |-> [ok |-> FALSE, w |-> 0, h |-> 0], png |-> FALSE]
ImageValue == [audio |-> [ok |-> FALSE, n |-> 0], enc |-> "none",
               img |-> [ok |-> TRUE, w |-> MIN_AUTO_IMAGE_DIM, h |-> MIN_AUTO_IMAGE_DIM],
               png |-> TRUE]
Palette == {AudioValue, ImageValue}

\* Uiua::with_safe_sys()
with_safe_sys(id) == [NoRuntime EXCEPT !.id = id]

\* Faulty variant of with_execution_limit: the limit is not set.
without_execution_limit(rt) == rt

\* .with_execution_limit(DEFAULT_EXECUTION_LIMIT)
with_execution_limit(rt) == [rt EXCEPT !.limit = DEFAULT_EXECUTION_LIMIT]

\* Faulty variant of is_empty: the check is missing.
never_empty(c) == FALSE

\* code.is_empty()
is_empty(c) == Len(c) = 0

\* format!("# Experimental!\n{code}")
exp_code(c) == ExperimentalHeader \o c

\* The identity of the instance the next Uiua::with_safe_sys() builds.
fresh_id == nextId

\* Faulty variant of truncate: the last values are kept, not the first.
truncate_last(stack) ==
    IF Len(stack) > MAX_STACK_VALS_DISPLAYED
    THEN SubSeq(stack, Len(stack) - MAX_STACK_VALS_DISPLAYED + 1, Len(stack))
    ELSE stack

\* if stack_len > MAX { stack.truncate(MAX) }
truncate(stack) ==
    IF Len(stack) > MAX_STACK_VALS_DISPLAYED
    THEN SubSeq(stack, 1, MAX_STACK_VALS_DISPLAYED)
    ELSE stack

\* Faulty variant of continuation: the item is chained unconditionally.
continuation_always(stack_len) ==
    <<Continuation(stack_len - MAX_STACK_VALS_DISPLAYED)>>

\* (stack_len > MAX).then(|| Continuation((stack_len - MAX) as u32)).  The
\* cast keeps the number: it is below 2^32 for every stack of the model.
continuation(stack_len) ==
    IF stack_len > MAX_STACK_VALS_DISPLAYED
    THEN <<Continuation(stack_len - MAX_STACK_VALS_DISPLAYED)>>
    ELSE <<>>

\* The Ok arm of run_uiua, on the stack runtime.take_stack() returned.
ok_arm(taken) ==
    LET stack_len == Len(taken)
        stack == truncate(taken)
    IN  OkResult([i \in 1..Len(stack) |-> From(stack[i])] \o continuation(stack_len))

\* The Err arm: format!("Error while running: {e} ")
err_arm(e) == ErrResult(ErrorPrefix \o e \o <<" ">>)

RunIdle ==
    /\ pc = "idle"
    /\ code = <<>>
    /\ prog = "halts"
    /\ runtime = NoRuntime
    /\ nextId = 1
    /\ built = 0
    /\ invoked = 0
    /\ runLog = <<>>
    /\ produced = <<>>
    /\ detail = <<>>
    /\ result = NoResult
    /\ returns = 0
    /\ ncalls = 0

\* run_uiua(c) with empty code: returns before any interpreter exists.
CallEmpty(c) ==
    /\ pc \in {"idle", "done"}
    /\ ncalls < MaxCalls
    /\ is_empty(c)
    /\ code' = c
    /\ ncalls' = ncalls + 1
    /\ result' = ErrResult(EmptyCodeMsg)
    /\ returns' = 1
    /\ pc' = "done"
    /\ runtime' = NoRuntime
    /\ built' = 0
    /\ invoked' = 0
    /\ produced' = <<>>
    /\ detail' = <<>>
    /\ UNCHANGED <<prog, nextId, runLog>>
    /\ UNCHANGED <<clsVars, emoVars, docVars>>

\* run_uiua(c) up to its call of runtime.run_str(exp_code).
CallRun(c, p) ==
    /\ pc \in {"idle", "done"}
    /\ ncalls < MaxCalls
    /\ ~is_empty(c)
    /\ code' = c
    /\ prog' = p
    /\ ncalls' = ncalls + 1
    /\ runtime' = [with_execution_limit(with_safe_sys(fresh_id))
                     EXCEPT !.source = exp_code(c)]
    /\ nextId' = nextId + 1
    /\ built' = 1
    /\ invoked' = 1
    /\ runLog' = Append(runLog, fresh_id)
    /\ produced' = <<>>
    /\ detail' = <<>>
    /\ result' = NoResult
    /\ returns' = 0
    /\ pc' = "running"
    /\ UNCHANGED <<clsVars, emoVars, docVars>>

InTime == runtime.limit = NoLimit \/ runtime.elapsed < runtime.limit

\* The interpreter pushes a value.
InterpPush(v) ==
    /\ pc = "running" /\ prog = "halts" /\ InTime
    /\ Len(runtime.stack) < MaxStack
    /\ runtime' = [runtime EXCEPT !.stack = Append(@, v)]
    /\ produced' = Append(produced, v)
    /\ UNCHANGED <<pc, code, prog, nextId, built, invoked, runLog, detail,
                   result, returns, ncalls>>
    /\ UNCHANGED <<clsVars, emoVars, docVars>>

\* A second passes inside run_str.
InterpTick ==
    /\ pc = "running" /\ InTime
    /\ runtime.elapsed < MaxClock
    /\ runtime' = [runtime EXCEPT !.elapsed = @ + 1]
    /\ UNCHANGED <<pc, code, prog, nextId, built, invoked, runLog, produced,
                   detail, result, returns, ncalls>>
    /\ UNCHANGED <<clsVars, emoVars, docVars>>

\* run_str returns Ok: run_uiua takes the stack and builds its result.
InterpOk ==
    /\ pc = "running" /\ prog = "halts" /\ InTime
    /\ result' = ok_arm(runtime.stack)
    /\ runtime' = NoRuntime
    /\ returns' = returns + 1
    /\ pc' = "done"
    /\ UNCHANGED <<code, prog, nextId, built, invoked, runLog, produced,
                   detail, ncalls>>
    /\ UNCHANGED <<clsVars, emoVars, docVars>>

\* run_str returns an error of the program (parse, type, runtime).
InterpFail(d) ==
    /\ pc = "running" /\ prog = "halts" /\ InTime
    /\ detail' = d
    /\ result' = err_arm(d)
    /\ runtime' = NoRuntime
    /\ produced' = <<>>
    /\ returns' = returns + 1
    /\ pc' = "done"
    /\ UNCHANGED <<code, prog, nextId, built, invoked, runLog, ncalls>>
    /\ UNCHANGED <<clsVars, emoVars, docVars>>

\* The execution limit is reached: run_str returns the timeout error.
InterpTimeout ==
    /\ pc = "running"
    /\ ~InTime
    /\ detail' = TimeoutDetail
    /\ result' = err_arm(TimeoutDetail)
    /\ runtime' = NoRuntime
    /\ produced' = <<>>
    /\ returns' = returns + 1
    /\ pc' = "done"
    /\ UNCHANGED <<code, prog, nextId, built, invoked, runLog, ncalls>>
    /\ UNCHANGED <<clsVars, emoVars, docVars>>

(***************************************************************************)
(* EMOJI_MAP and print_emoji.                                              *)
(***************************************************************************)
NoGlyph == ""
\* uiua's primitives, as far as this file reads them: name(), names().glyph,
\* is_experimental(), and the names from_format_name resolves.
Prims == <<
    [name |-> <<"a", "b">>, glyph |-> "+", experimental |-> FALSE,
     formats |-> {<<"a", "b">>, <<"b">>}],
    [name |-> <<"a", "a">>, glyph |-> "a", experimental |-> TRUE,
     formats |-> {<<"a", "a">>}],
    [name |-> <<"b">>, glyph |-> NoGlyph, experimental |-> FALSE,
     formats |-> {}],
    [name |-> <<"a", " ", "b">>, glyph |-> NoGlyph, experimental |-> FALSE,
     formats |-> {}],
    [name |-> <<"b", "+">>, glyph |-> NoGlyph, experimental |-> TRUE,
     formats |-> {}] >>
PrimIds == 1..Len(Prims)
NoPrim == 0

\* Texts assets/glyphlist.txt may hold: two entries, a repeated key, a line
\* without a space, no line at all.
Asset1 == <<"a", "b", " ", "1", "\n", "c", "d", " ", "2", "\n">>
Asset2 == <<"a", "b", " ", "1", "\n", "a", "b", " ", "2">>
Asset3 == <<"a", "b", " ", "1", "\n", "c", "d">>
Asset4 == <<>>
Assets == {Asset1, Asset2, Asset3, Asset4}

RECURSIVE lines(_)
\* str::lines(): the text split at "\n"; a final "\n" ends the last line.
lines(text) ==
    IF text = <<>> THEN <<>>
    ELSE LET ends == {i \in 1..Len(text) : text[i] = "\n"}
         IN  IF ends = {} THEN <<text>>
             ELSE LET e == CHOOSE i \in ends : \A j \in ends : i <= j
                  IN  <<SubSeq(text, 1, e - 1)>> \o lines(SubSeq(text, e + 1, Len(text)))

\* l.bytes().position(|c| c == b' '), counted from 1; 0 is None.
space_idx(l) ==
    LET at == {i \in 1..Len(l) : l[i] = " "}
    IN  IF at = {} THEN 0 ELSE CHOOSE i \in at : \A j \in at : i <= j

\* .expect("EMOJI_IDS are malformed")
malformed(l) == space_idx(l) = 0

\* let (a, b) = l.split_at(space_idx); (a, &b[1..])
entry(l) ==
    [key |-> SubSeq(l, 1, space_idx(l) - 1),
     val |-> SubSeq(l, space_idx(l) + 1, Len(l))]

EmptyMap == [k \in {} |-> <<>>]
\* HashMap::insert: a later entry replaces an earlier one of the same key.
insert(m, e) ==
    [k \in DOMAIN m \cup {e.key} |-> IF k = e.key THEN e.val ELSE m[k]]

RECURSIVE collect(_, _)
\* .map(..).collect::<HashMap<&str, &str>>() over the lines ls, from m.
collect(ls, m) ==
    IF ls = <<>> THEN m ELSE collect(Tail(ls), insert(m, entry(Head(ls))))

WellFormed(text) == \A i \in 1..Len(lines(text)) : ~malformed(lines(text)[i])
\* The table the initializer builds from a well-formed text.
FullTable(text) == collect(lines(text), EmptyMap)

NoTable == [k \in {<<>>} |-> <<"?">>]

\* c.name().split(' ').collect::<String>()
spaceless(name) == SelectSeq(name, LAMBDA ch : ch # " ")

\* print_emoji(c), given the table EMOJI_MAP dereferences to.
print_emoji(c, map) ==
    IF Prims[c].experimental
    THEN IF Prims[c].glyph # NoGlyph THEN <<Prims[c].glyph>> ELSE Prims[c].name
    ELSE IF spaceless(Prims[c].name) \in DOMAIN map
         THEN <<":">> \o spaceless(Prims[c].name) \o <<":">>
         ELSE <<"<">> \o spaceless(Prims[c].name) \o <<">">>

Threads == 1..NumThreads

EmoIdle ==
    /\ asset = Asset1
    /\ once = "incomplete"
    /\ table = NoTable
    /\ building = EmptyMap
    /\ lineNo = 0
    /\ initCount = 0
    /\ tpc = [t \in Threads |-> "idle"]
    /\ tprim = [t \in Threads |-> NoPrim]
    /\ tout = [t \in Threads |-> <<>>]
    /\ tseen = [t \in Threads |-> NoTable]
    /\ twaited = {}
    /\ tcalls = 0

\* Faulty variant of may_initialize: a check without the Once, so that a
\* thread that finds the cell not yet complete initializes it too.
unguarded_claim == once # "complete"

\* Once::call_once: only the thread that finds the cell incomplete runs the
\* initializer.
may_initialize == once = "incomplete"

\* print_emoji(c) of an experimental primitive: EMOJI_MAP is not touched.
PrintExperimental(t, c) ==
    /\ tpc[t] = "idle" /\ tcalls < MaxLookups
    /\ Prims[c].experimental
    /\ tcalls' = tcalls + 1
    /\ tout' = [tout EXCEPT ![t] = print_emoji(c, EmptyMap)]
    /\ tseen' = [tseen EXCEPT ![t] = NoTable]
    /\ UNCHANGED <<asset, once, table, building, lineNo, initCount, tpc, tprim,
                   twaited>>
    /\ UNCHANGED <<runVars, clsVars, docVars>>

\* print_emoji(c) of any other primitive, up to its dereference of EMOJI_MAP.
PrintStart(t, c) ==
    /\ tpc[t] = "idle" /\ tcalls < MaxLookups
    /\ ~Prims[c].experimental
    /\ tcalls' = tcalls + 1
    /\ tprim' = [tprim EXCEPT ![t] = c]
    /\ tout' = [tout EXCEPT ![t] = <<>>]
    /\ tseen' = [tseen EXCEPT ![t] = NoTable]
    /\ tpc' = [tpc EXCEPT ![t] = "force"]
    /\ UNCHANGED <<asset, once, table, building, lineNo, initCount, twaited>>
    /\ UNCHANGED <<runVars, clsVars, docVars>>

\* LazyLock::force finds the cell incomplete: this thread runs the closure.
InitBegin(t) ==
    /\ tpc[t] = "force"
    /\ may_initialize
    /\ once' = "running"
    /\ initCount' = initCount + 1
    /\ building' = EmptyMap
    /\ lineNo' = 1
    /\ tpc' = [tpc EXCEPT ![t] = "init"]
    /\ UNCHANGED <<asset, table, tprim, tout, tseen, twaited, tcalls>>
    /\ UNCHANGED <<runVars, clsVars, docVars>>

\* The closure maps one line; a line without a space panics and poisons.
InitLine(t) ==
    /\ tpc[t] = "init"
    /\ lineNo <= Len(lines(asset))
    /\ IF malformed(lines(asset)[lineNo])
       THEN /\ once' = "poisoned"
            /\ tpc' = [tpc EXCEPT ![t] = "panicked"]
            /\ UNCHANGED <<building, lineNo>>
       ELSE /\ building' = insert(building, entry(lines(asset)[lineNo]))
            /\ lineNo' = lineNo + 1
            /\ UNCHANGED <<once, tpc>>
    /\ UNCHANGED <<asset, table, initCount, tprim, tout, tseen, twaited, tcalls>>
    /\ UNCHANGED <<runVars, clsVars, docVars>>

\* The closure returns: the map is stored and the cell is complete.
InitEnd(t) ==
    /\ tpc[t] = "init"
    /\ lineNo > Len(lines(asset))
    /\ table' = building
    /\ once' = "complete"
    /\ tpc' = [tpc EXCEPT ![t] = "read"]
    /\ UNCHANGED <<asset, building, lineNo, initCount, tprim, tout, tseen,
                   twaited, tcalls>>
    /\ UNCHANGED <<runVars, clsVars, docVars>>

\* LazyLock::force finds the initializer running: the thread blocks.
ForceWait(t) ==
    /\ tpc[t] = "force"
    /\ ~may_initialize
    /\ once = "running"
    /\ tpc' = [tpc EXCEPT ![t] = "wait"]
    /\ twaited' = twaited \cup {t}
    /\ UNCHANGED <<asset, once, table, building, lineNo, initCount, tprim, tout,
                   tseen, tcalls>>
    /\ UNCHANGED <<runVars, clsVars, docVars>>

\* LazyLock::force finds the cell complete, at once or after blocking.
ForceReady(t) ==
    /\ tpc[t] \in {"force", "wait"}
    /\ ~may_initialize
    /\ once = "complete"
    /\ tpc' = [tpc EXCEPT ![t] = "read"]
    /\ UNCHANGED <<asset, once, table, building, lineNo, initCount, tprim, tout,
                   tseen, twaited, tcalls>>
    /\ UNCHANGED <<runVars, clsVars, docVars>>

\* LazyLock::force finds the cell poisoned: the thread panics.
ForcePoisoned(t) ==
    /\ tpc[t] \in {"force", "wait"}
    /\ ~may_initialize
    /\ once = "poisoned"
    /\ tpc' = [tpc EXCEPT ![t] = "panicked"]
    /\ UNCHANGED <<asset, once, table, building, lineNo, initCount, tprim, tout,
                   tseen, twaited, tcalls>>
    /\ UNCHANGED <<runVars, clsVars, docVars>>

\* EMOJI_MAP.get(&*spaceless_name) and the rest of print_emoji.
Lookup(t) ==
    /\ tpc[t] = "read"
    /\ tseen' = [tseen EXCEPT ![t] = table]
    /\ tout' = [tout EXCEPT ![t] = print_emoji(tprim[t], table)]
    /\ tprim' = [tprim EXCEPT ![t] = NoPrim]
    /\ tpc' = [tpc EXCEPT ![t] = "idle"]
    /\ UNCHANGED <<asset, once, table, building, lineNo, initCount, twaited,
                   tcalls>>
    /\ UNCHANGED <<runVars, clsVars, docVars>>

EmoInit ==
    /\ RunIdle /\ ClsIdle /\ DocIdle
    /\ asset \in Assets
    /\ once = "incomplete"
    /\ table = NoTable
    /\ building = EmptyMap
    /\ lineNo = 0
    /\ initCount = 0
    /\ tpc = [t \in Threads |-> "idle"]
    /\ tprim = [t \in Threads |-> NoPrim]
    /\ tout = [t \in Threads |-> <<>>]
    /\ tseen = [t \in Threads |-> NoTable]
    /\ twaited = {}
    /\ tcalls = 0

EmoNext ==
    \/ \E t \in Threads, c \in PrimIds : PrintExperimental(t, c)
    \/ \E t \in Threads, c \in PrimIds : PrintStart(t, c)
    \/ \E t \in Threads : InitBegin(t)
    \/ \E t \in Threads : InitLine(t)
    \/ \E t \in Threads : InitEnd(t)
    \/ \E t \in Threads : ForceWait(t)
    \/ \E t \in Threads : ForceReady(t)
    \/ \E t \in Threads : ForcePoisoned(t)
    \/ \E t \in Threads : Lookup(t)

EmoSpec == EmoInit /\ [][EmoNext]_vars

(***************************************************************************)
(* get_docs and the rendering of a primitive's documentation.              *)
(***************************************************************************)
\* The grave accent, a character that a string of this language cannot hold.
Backtick == "GRAVE"

\* PrimDocFragment
Text(x) == [k |-> "Text", t |-> x, prim |-> NoPrim, named |-> FALSE, url |-> <<>>]
Code(x) == [k |-> "Code", t |-> x, prim |-> NoPrim, named |-> FALSE, url |-> <<>>]
Emphasis(x) == [k |-> "Emphasis", t |-> x, prim |-> NoPrim, named |-> FALSE, url |-> <<>>]
Strong(x) == [k |-> "Strong", t |-> x, prim |-> NoPrim, named |-> FALSE, url |-> <<>>]
PrimRef(c, named) == [k |-> "Primitive", t |-> <<>>, prim |-> c, named |-> named, url |-> <<>>]
Link(x, url) == [k |-> "Link", t |-> x, prim |-> NoPrim, named |-> FALSE, url |-> url]
\* PrimDocLine; an example's output() is Ok(lines) or Err(message).
TextLine(frags) == [k |-> "Text", frags |-> frags, input |-> <<>>, ok |-> TRUE, out |-> <<>>]
Example(input, ok, out) == [k |-> "Example", frags |-> <<>>, input |-> input, ok |-> ok, out |-> out]

\* Primitive::doc() of Prims[1] .. Prims[5].
Docs == <<
    [short |-> <<Text(<<"A">>), Code(<<"1">>)>>,
     lines |-> <<TextLine(<<Text(<<"x">>), PrimRef(3, TRUE)>>),
                 Example(<<"+">>, TRUE, <<(<<"2">>), (<<"3">>)>>),
                 TextLine(<<Emphasis(<<"e">>)>>),
                 TextLine(<<Strong(<<"s">>)>>),
                 TextLine(<<Link(<<"l">>, <<"u">>)>>),
                 TextLine(<<Text(<<"z">>)>>)>>],
    [short |-> <<Text(<<"B">>)>>,
     lines |-> <<TextLine(<<PrimRef(2, FALSE), PrimRef(4, FALSE)>>)>>],
    [short |-> <<Text(<<"C">>)>>,
     lines |-> <<Example(<<"b">>, FALSE, <<(<<"n", "\n", "o">>)>>)>>],
    [short |-> <<Text(<<"D">>)>>,
     lines |-> <<>>],
    [short |-> <<Text(<<"E">>)>>,
     lines |-> <<TextLine(<<PrimRef(1, TRUE), PrimRef(5, TRUE)>>)>>] >>

Alphabet == {"a", "b", "+", " "}
RECURSIVE Strings(_)
Strings(n) ==
    IF n = 0 THEN {<<>>}
    ELSE Strings(n - 1) \cup {Append(x, ch) : x \in {y \in Strings(n - 1) : Len(y) = n - 1}, ch \in Alphabet}
Tokens == Strings(MaxTokenLen)

\* The first primitive of uiua's list, in its order, that is in S.
first_of(S) == IF S = {} THEN NoPrim ELSE CHOOSE c \in S : \A d \in S : c <= d

\* Primitive::from_format_name(f)
from_format_name(f) == first_of({c \in PrimIds : f \in Prims[c].formats})
\* Primitive::from_glyph(ch)
from_glyph(ch) == first_of({c \in PrimIds : Prims[c].glyph # NoGlyph /\ Prims[c].glyph = ch})
\* Primitive::from_name(f)
from_name(f) == first_of({c \in PrimIds : Prims[c].name = f})

\* f.chars().next().unwrap_or_default(): the first char, or char::default().
NulChar == "NUL"
first_char(f) == IF f = <<>> THEN NulChar ELSE f[1]

\* Option::or_else
or_else(a, b) == IF a # NoPrim THEN a ELSE b

\* Faulty variant of resolve: the glyph is tried before the display name.
resolve_glyph_first(f) ==
    or_else(or_else(from_glyph(first_char(f)), from_format_name(f)), from_name(f))

\* The scrutinee of get_docs' match.
resolve(f) ==
    or_else(or_else(from_format_name(f), from_glyph(first_char(f))), from_name(f))

RECURSIVE join(_, _)
\* [String]::join(sep), and Iterator::collect::<String>() with sep = <<>>.
join(strs, sep) ==
    IF strs = <<>> THEN <<>>
    ELSE IF Len(strs) = 1 THEN strs[1]
    ELSE strs[1] \o sep \o join(Tail(strs), sep)

\* Iterator::take(n)
take(xs, n) == SubSeq(xs, 1, Min(n, Len(xs)))

\* highlight_code(&text), of the crate's root: the text in a code fence.
highlight_code(text) == <<Backtick, Backtick, Backtick>> \o text \o <<Backtick, Backtick, Backtick>>

print_doc_frag(frag, map) ==
    CASE frag.k = "Text" -> frag.t
      [] frag.k = "Code" -> <<Backtick>> \o frag.t \o <<Backtick>>
      [] frag.k = "Emphasis" -> <<"_">> \o frag.t \o <<"_">>
      [] frag.k = "Strong" -> <<"*", "*">> \o frag.t \o <<"*", "*">>
      [] frag.k = "Primitive" ->
            IF frag.named
            THEN print_emoji(frag.prim, map) \o <<" ", Backtick>> \o Prims[frag.prim].name \o <<Backtick>>
            ELSE print_emoji(frag.prim, map)
      [] frag.k = "Link" -> <<"[">> \o frag.t \o <<"]", "(">> \o frag.url \o <<")">>

print_docs(line, map) ==
    IF line.k = "Text"
    THEN join([i \in 1..Len(line.frags) |-> print_doc_frag(line.frags[i], map)], <<" ">>)
    ELSE LET out == IF line.ok THEN join(line.out, <<";">>) ELSE line.out[1]
             ls == lines(out)
             text == line.input \o <<"\n">>
                       \o join([i \in 1..Len(ls) |-> <<"#", " ">> \o ls[i] \o <<"\n">>], <<>>)
         IN  highlight_code(text)

\* The Some arm of get_docs.
render(docs, f, map) ==
    LET short == join([i \in 1..Len(Docs[docs].short) |->
                          <<"#", "#", " ">> \o print_doc_frag(Docs[docs].short[i], map)],
                      <<"\n">>)
        shown == take(Docs[docs].lines, 5)
        long == join([i \in 1..Len(shown) |-> print_docs(shown[i], map)], <<"\n">>)
    IN  <<"\n">> \o short \o <<"\n", "\n", "\n">> \o long
            \o DocsLinkPrefix \o f \o DocsLinkSuffix

\* get_docs(f), given the table EMOJI_MAP dereferences to.
get_docs(f, map) ==
    IF resolve(f) # NoPrim
    THEN render(resolve(f), f, map)
    ELSE NoDocsPrefix \o f \o NoDocsSuffix

\* get_docs(dtoken), the whole call.
GetDocs ==
    /\ dpc = "input"
    /\ dout' = get_docs(dtoken, table)
    /\ dpc' = "done"
    /\ UNCHANGED dtoken
    /\ UNCHANGED <<runVars, clsVars, emoVars>>

\* get_docs is called with any token, in a process whose EMOJI_MAP was
\* built from a well-formed glyph list.
DocInit ==
    /\ RunIdle /\ ClsIdle
    /\ asset \in {a \in Assets : WellFormed(a)}
    /\ once = "complete"
    /\ table = FullTable(asset)
    /\ building = table
    /\ lineNo = Len(lines(asset)) + 1
    /\ initCount = 1
    /\ tpc = [t \in Threads |-> "idle"]
    /\ tprim = [t \in Threads |-> NoPrim]
    /\ tout = [t \in Threads |-> <<>>]
    /\ tseen = [t \in Threads |-> NoTable]
    /\ twaited = {}
    /\ tcalls = 0
    /\ dpc = "input"
    /\ dtoken \in Tokens
    /\ dout = <<>>

DocNext == GetDocs
DocSpec == DocInit /\ [][DocNext]_vars

(***************************************************************************)
(* Specifications.                                                         *)
(***************************************************************************)
Init == RunIdle /\ ClsIdle /\ EmoIdle /\ DocIdle

Next ==
    \/ \E c \in Codes : CallEmpty(c)
    \/ \E c \in Codes, p \in {"halts", "loops"} : CallRun(c, p)
    \/ \E v \in Palette : InterpPush(v)
    \/ InterpTick
    \/ InterpOk
    \/ \E d \in Details : InterpFail(d)
    \/ InterpTimeout

Spec == Init /\ [][Next]_vars

\* run_str is a blocking call: the interpreter keeps running until the call
\* returns, so its steps are taken whenever one stays possible.
LiveSpec ==
    /\ Init /\ [][Next]_vars
    /\ WF_vars(InterpTick)
    /\ WF_vars(InterpOk)
    /\ WF_vars(InterpTimeout)

ClsInit == RunIdle /\ EmoIdle /\ DocIdle /\ cpc = "input" /\ cval \in Values /\ citem = NoItem /\ ctried = <<>>
ClsNext == Classify
ClsSpec == ClsInit /\ [][ClsNext]_vars

(***************************************************************************)
(* Properties of run_uiua.                                                 *)
(***************************************************************************)
Succeeded == pc = "done" /\ result.tag = "Ok"
Shown(items) == {i \in 1..Len(items) : items[i].kind # "Continuation"}

\* C1: a successful run over a stack v1..vn returns the classified first
\* min(n, 10) values in the interpreter's order, followed by exactly one
\* Continuation(n - 10), as the last item, if and only if n > 10; so the
\* length is n for n <= 10 and 11 for n > 10, and at most 10 items are not
\* a Continuation.
C1_StackIsCapped ==
    Succeeded =>
        LET n == Len(produced)
            m == Min(n, 10)
            items == result.items
        IN  /\ MAX_STACK_VALS_DISPLAYED = 10
            /\ Len(items) = (IF n > 10 THEN 11 ELSE n)
            /\ \A i \in 1..m : items[i] = From(produced[i])
            /\ \A i \in 1..Len(items) :
                   items[i].kind = "Continuation" <=> (n > 10 /\ i = 11)
            /\ n > 10 => items[11] = Continuation(n - 10)
            /\ Cardinality(Shown(items)) <= 10

C1_Witness ==
    /\ Succeeded
    /\ Len(produced) = 12
    /\ produced[1] # produced[11]
    /\ produced[2] # produced[12]
    /\ Len(result.items) = 11
    /\ result.items[11] = Continuation(2)

\* C2 as claimed: every successful run returns at least one item.
C2_SuccessIsNonEmpty == Succeeded => Len(result.items) >= 1

\* C2 as amended: run_uiua returns either a sequence of items or an error
\* message, never both, and on success the sequence is non-empty exactly
\* when the interpreter's stack holds at least one value: a program that
\* leaves no values returns success with the empty sequence.
C2_ResultShape ==
    pc = "done" =>
        /\ result.tag \in {"Ok", "Err"}
        /\ result.tag = "Ok" =>
               /\ result.msg = <<>>
               /\ Len(result.items) >= 1 <=> Len(produced) >= 1
        /\ result.tag = "Err" => result.items = <<>> /\ Len(result.msg) >= 1

C2_Witness ==
    /\ Succeeded
    /\ ~is_empty(code)
    /\ produced = <<>>
    /\ result.items = <<>>

\* C3: for the empty string run_uiua returns an error and no interpreter
\* is built or invoked on that call; for every non-empty code the
\* interpreter is invoked exactly once.
C3_EmptyCodeSkipsInterpreter ==
    pc # "idle" =>
        /\ code = <<>> =>
               /\ pc = "done" /\ result.tag = "Err"
               /\ built = 0 /\ invoked = 0
        /\ code # <<>> => built = 1 /\ invoked = 1
        /\ Len(runLog) <= ncalls
        /\ nextId = Len(runLog) + 1

C3_Witness ==
    /\ pc = "done"
    /\ code = <<>>
    /\ ncalls = 2
    /\ Len(runLog) = 1
    /\ result = ErrResult(EmptyCodeMsg)

\* C4: when the interpreter reports a failure with detail message d,
\* run_uiua returns the error "Error while running: " followed by d and
\* nothing else, and no output items.
C4_ErrorIsPrefixThenDetail ==
    (pc = "done" /\ detail # <<>>) =>
        /\ result.tag = "Err"
        /\ result.items = <<>>
        /\ result.msg = ErrorPrefix \o detail

\* The instances run_str was invoked on are pairwise distinct.
FreshInstances ==
    \A i, j \in 1..Len(runLog) : i # j => runLog[i] # runLog[j]

C5_Safety ==
    /\ returns <= 1
    /\ invoked <= 1
    /\ FreshInstances
    /\ pc = "running" =>
           /\ runtime.limit = 2
           /\ runtime.elapsed <= runtime.limit
           /\ runtime.id = runLog[Len(runLog)]
    /\ (pc = "done" /\ detail = TimeoutDetail) =>
           result.tag = "Err" /\ returns = 1 /\ invoked = 1

\* Once the limit is reached the only step is the return of an error.
C5_Abort ==
    (pc = "running" /\ runtime.elapsed >= 2) =>
        (pc' = "done" /\ result'.tag = "Err" /\ invoked' = invoked)

\* C5: every call of run_uiua eventually returns; a run that has not
\* completed within the 2-second limit is aborted and returns an error,
\* once and with no retry, and every call runs on a fresh instance.
C5_EveryCallReturns ==
    /\ (pc = "running") ~> (pc = "done")
    /\ []C5_Safety
    /\ [][C5_Abort]_vars

C5_Witness ==
    /\ pc = "done"
    /\ prog = "loops"
    /\ detail = TimeoutDetail
    /\ result.tag = "Err"
    /\ Len(runLog) = 2

(***************************************************************************)
(* Properties of the classifier.                                           *)
(***************************************************************************)
\* Every step of the audio attempt succeeds on v.
AudioEncodes(v) == v.audio.ok /\ v.audio.n % 256 # 0 /\ v.enc = "none"
\* The image attempt yields an image of v.
ImageEncodes(v) == v.img.ok /\ v.img.w >= 30 /\ v.img.h >= 30 /\ v.png

\* C6: classification returns exactly one of Audio, Image, Misc for every
\* value; a failure of any step of the audio attempt moves on to the image
\* attempt, and when both attempts fail the result is Misc carrying the
\* original value.
C6_ClassifyIsTotal ==
    cpc = "classified" =>
        /\ citem.kind \in {"Audio", "Image", "Misc"}
        /\ citem.of = cval
        /\ ~AudioEncodes(cval) => ctried = <<"audio", "image">>
        /\ (~AudioEncodes(cval) /\ ~ImageEncodes(cval)) => citem = Misc(cval)

C6_Witness ==
    /\ cpc = "classified"
    /\ cval.audio.ok /\ cval.audio.n = 2 /\ cval.enc = "encode"
    /\ cval.img.ok /\ cval.img.w = 30 /\ cval.img.h = 30 /\ ~cval.png
    /\ citem = Misc(cval)

\* C7 as claimed: a value whose audio-channel conversion succeeds is
\* always classified as Audio.
C7_ConvertedIsAudio ==
    (cpc = "classified" /\ cval.audio.ok) => citem.kind = "Audio"

\* C7 as amended: a value on which the whole audio attempt succeeds (the
\* conversion, a channel count that is not 0 as u8, encoder build, encode
\* and finish) is always classified as Audio, also when it converts to an
\* image with both dimensions >= 30; the image attempt is reached only
\* after the audio attempt has been tried and has failed.
C7_EncodedIsAudio ==
    cpc = "classified" =>
        /\ AudioEncodes(cval) => citem = Audio(cval) /\ ctried = <<"audio">>
        /\ ctried[1] = "audio"
        /\ citem.kind = "Image" => ~AudioEncodes(cval)

C7_Witness ==
    /\ cpc = "classified"
    /\ AudioEncodes(cval)
    /\ ImageEncodes(cval)
    /\ citem = Audio(cval)

\* C8 as claimed: a value that is not audio-shaped and converts to an
\* image is Image when both dimensions are >= 30 and Misc otherwise.
C8_LargeIsImage ==
    (cpc = "classified" /\ ~cval.audio.ok /\ cval.img.ok) =>
        /\ (cval.img.w >= 30 /\ cval.img.h >= 30) => citem.kind = "Image"
        /\ (cval.img.w < 30 \/ cval.img.h < 30) => citem.kind = "Misc"

\* C8 as amended: such a value is Image when both dimensions are >= 30
\* and the PNG encoding succeeds, and Misc when either dimension is below
\* 30 or the encoding fails; no Image item comes from an image with a
\* dimension under 30.
C8_LargeEncodedIsImage ==
    /\ MIN_AUTO_IMAGE_DIM = 30
    /\ (cpc = "classified" /\ ~cval.audio.ok /\ cval.img.ok) =>
           /\ (cval.img.w >= 30 /\ cval.img.h >= 30 /\ cval.png)
                  => citem = Image(cval)
           /\ (cval.img.w < 30 \/ cval.img.h < 30 \/ ~cval.png)
                  => citem = Misc(cval)
    /\ (cpc = "classified" /\ citem.kind = "Image") =>
           cval.img.ok /\ cval.img.w >= 30 /\ cval.img.h >= 30

C8_Witness ==
    /\ cpc = "classified"
    /\ ~cval.audio.ok
    /\ cval.img.ok /\ cval.img.w = 29 /\ cval.img.h = 30 /\ cval.png
    /\ citem = Misc(cval)

(***************************************************************************)
(* Properties of EMOJI_MAP.                                                *)
(***************************************************************************)
\* C9: EMOJI_MAP is built exactly once per process: of the threads that
\* race on first use exactly one runs the initializer, every reader reads
\* the fully built table, never a partial one, and no lookup changes it.
C9_BuiltOnce ==
    /\ initCount <= 1
    /\ Cardinality({t \in Threads : tpc[t] = "init"}) <= 1
    /\ initCount = 1 <=> once # "incomplete"
    /\ \A t \in Threads :
           tpc[t] = "read" =>
               once = "complete" /\ initCount = 1 /\ table = FullTable(asset)
    /\ \A t \in Threads : tseen[t] # NoTable => tseen[t] = FullTable(asset)
    /\ once = "complete" => WellFormed(asset) /\ table = FullTable(asset)
    /\ once # "complete" => table = NoTable

C9_Witness ==
    /\ initCount = 1
    /\ twaited # {}
    /\ Cardinality(DOMAIN table) = 2
    /\ \A t \in Threads : tseen[t] = FullTable(asset)
    /\ \E t \in Threads : tout[t] = <<":", "a", "b", ":">>
    /\ \E t \in Threads : tout[t] = <<"<", "b", ">">>

(***************************************************************************)
(* Properties of get_docs.                                                 *)
(***************************************************************************)
IsPrefix(a, b) == Len(a) <= Len(b) /\ SubSeq(b, 1, Len(a)) = a
Contains(b, a) == \E i \in 0..(Len(b) - Len(a)) : SubSeq(b, i + 1, i + Len(a)) = a
\* The primitives a token matches in each of the three tables.
ByFormatName(f) == {c \in PrimIds : f \in Prims[c].formats}
ByGlyph(f) == {c \in PrimIds : Len(f) >= 1 /\ Prims[c].glyph = f[1]}
ByName(f) == {c \in PrimIds : Prims[c].name = f}
\* How the documentation of primitive c starts.
Heading(c) == <<"\n", "#", "#", " ">> \o Docs[c].short[1].t
DocsOfOneOf(S) == \E c \in S : IsPrefix(Heading(c), dout)

\* C10: get_docs resolves a token by the display-name table, else by its
\* first character as a glyph, else by the internal-name table, the first
\* match winning; a token that matches none of the three, the empty one
\* included, gets the 'no docs found' message with the literal token in
\* it; every token gets a text.
C10_ResolutionOrder ==
    dpc = "done" =>
        /\ Len(dout) > 0
        /\ ByFormatName(dtoken) # {} => DocsOfOneOf(ByFormatName(dtoken))
        /\ (ByFormatName(dtoken) = {} /\ ByGlyph(dtoken) # {})
               => DocsOfOneOf(ByGlyph(dtoken))
        /\ (ByFormatName(dtoken) = {} /\ ByGlyph(dtoken) = {} /\ ByName(dtoken) # {})
               => DocsOfOneOf(ByName(dtoken))
        /\ (ByFormatName(dtoken) = {} /\ ByGlyph(dtoken) = {} /\ ByName(dtoken) = {})
               => /\ dout = NoDocsPrefix \o dtoken \o NoDocsSuffix
                  /\ Contains(dout, dtoken)
                  /\ IsPrefix(<<"N", "o", " ", "d", "o", "c", "s", " ", "f", "o", "u", "n", "d">>, dout)

C10_Witness ==
    /\ dpc = "done"
    /\ dtoken = <<"a", "b">>
    /\ ByFormatName(dtoken) = {1}
    /\ ByGlyph(dtoken) = {2}
    /\ IsPrefix(Heading(1), dout)
    /\ ~IsPrefix(Heading(2), dout)

=============================================================================
